---- MODULE Spec2Model ----
(***************************************************************************)
(* Budget tracker (src/app.py): a Flask application over three tables      *)
(* (user, category, transaction) with Flask-Login sessions.  Each action   *)
(* is one HTTP request handled to completion by one route handler; resp   *)
(* is the response the last request produced.                             *)
(***************************************************************************)
EXTENDS Integers, Sequences, FiniteSets, TLC

VARIABLES users, categories, transactions, session, resp, workers

vars == <<users, categories, transactions, session, resp, workers>>
store == <<users, categories, transactions>>

-----------------------------------------------------------------------------
(* Bounds of the model. *)
MaxUsers == 2
MaxCategories == 2
MaxTransactions == 2

(* Browsers (cookie jars) and worker processes. *)
Clients == {"c1"}
Workers == {"w1", "w2"}

(* Form inputs.  Strings that the program parses are sequences of         *)
(* one-character strings; strings it only stores or compares are atoms.   *)
Usernames == {"alice", "bob"}
Emails == {"alice@example.com", "bob@example.com"}
Passwords == {"pw123", "hunter2"}
RegisterPasswords == {"pw123"}
CategoryNames == {"Salary", "Food"}
CategoryTypes == {"Income", "Expense"}
Descriptions == {"groceries"}
Amounts == { <<"4","2",".","5","0">>, <<"a","b","c">> }
CategoryIdStrings == { <<"1">>, <<"2">> }
DateStrings == { <<"2","0","2","5","-","0","1","-","1","5">>,
                 <<"2","0","2","5","-","0","2","-","0","1">>,
                 <<"2","0","2","5","-","0","2","-","3","0">> }

(* The transaction forms submitted: every category id and date with the   *)
(* well-formed amount, and one form with an amount that is no number.     *)
DashboardForms ==
    {[amount |-> <<"4","2",".","5","0">>, description |-> d,
      category_id |-> k, transaction_date |-> t] :
        d \in Descriptions, k \in CategoryIdStrings, t \in DateStrings}
    \cup {[amount |-> <<"a","b","c">>, description |-> "groceries",
            category_id |-> <<"1">>,
            transaction_date |-> <<"2","0","2","5","-","0","1","-","1","5">>]}

-----------------------------------------------------------------------------
(* String helpers. *)
DigitChars == {"0","1","2","3","4","5","6","7","8","9"}

DigitVal(c) ==
    CASE c = "0" -> 0 [] c = "1" -> 1 [] c = "2" -> 2 [] c = "3" -> 3
      [] c = "4" -> 4 [] c = "5" -> 5 [] c = "6" -> 6 [] c = "7" -> 7
      [] c = "8" -> 8 [] c = "9" -> 9

IsDigits(s) == Len(s) > 0 /\ \A i \in 1..Len(s) : s[i] \in DigitChars

RECURSIVE ToInt(_)
ToInt(s) ==
    IF Len(s) = 0 THEN 0
    ELSE 10 * ToInt(SubSeq(s, 1, Len(s) - 1)) + DigitVal(s[Len(s)])

RECURSIVE Split(_, _)
Split(s, sep) ==
    IF \A i \in 1..Len(s) : s[i] # sep THEN <<s>>
    ELSE LET k == CHOOSE i \in 1..Len(s) :
                    s[i] = sep /\ \A j \in 1..(i - 1) : s[j] # sep
         IN  <<SubSeq(s, 1, k - 1)>> \o Split(SubSeq(s, k + 1, Len(s)), sep)

RECURSIVE StripTrailingZeros(_)
StripTrailingZeros(s) ==
    IF Len(s) > 0 /\ s[Len(s)] = "0"
    THEN StripTrailingZeros(SubSeq(s, 1, Len(s) - 1))
    ELSE s

-----------------------------------------------------------------------------
(* datetime.strptime(date_string, '%Y-%m-%d').date(): the parsed calendar  *)
(* date, or the error ValueError when the string does not match the format or     *)
(* names no day of the calendar.                                           *)
IsLeap(y) == (y % 4 = 0 /\ y % 100 # 0) \/ y % 400 = 0

DaysInMonth(y, m) ==
    IF m = 2 THEN (IF IsLeap(y) THEN 29 ELSE 28)
    ELSE IF m \in {4, 6, 9, 11} THEN 30 ELSE 31

Strptime(s) ==
    LET p == Split(s, "-") IN
    IF Len(p) # 3 THEN [error |-> "ValueError"]
    ELSE IF ~(IsDigits(p[1]) /\ Len(p[1]) = 4) THEN [error |-> "ValueError"]
    ELSE IF ~(IsDigits(p[2]) /\ Len(p[2]) \in {1, 2}) THEN [error |-> "ValueError"]
    ELSE IF ~(IsDigits(p[3]) /\ Len(p[3]) \in {1, 2}) THEN [error |-> "ValueError"]
    ELSE LET y == ToInt(p[1])
             m == ToInt(p[2])
             d == ToInt(p[3])
         IN  IF y >= 1 /\ m \in 1..12 /\ d >= 1 /\ d <= DaysInMonth(y, m)
             THEN [error |-> "", value |-> [year |-> y, month |-> m, day |-> d]]
             ELSE [error |-> "ValueError"]

(* A date bound to the DateTime column transaction_date is stored as      *)
(* midnight of that day.                                                   *)
ToDateTime(d) == [year |-> d.year, month |-> d.month, day |-> d.day, hour |-> 0]

(* Ordering key of a stored DateTime. *)
DateKey(t) == ((t.year * 100 + t.month) * 100 + t.day) * 100 + t.hour

(* The value the Float column amount takes from the submitted string, or   *)
(* the error DataError when the store cannot read it as a number.                  *)
ToFloat(s) ==
    LET p == Split(s, ".") IN
    IF Len(p) = 1 /\ IsDigits(p[1])
    THEN [error |-> "", value |-> [whole |-> ToInt(p[1]), frac |-> <<>>]]
    ELSE IF Len(p) = 2 /\ IsDigits(p[1]) /\ IsDigits(p[2])
    THEN [error |-> "",
          value |-> [whole |-> ToInt(p[1]), frac |-> StripTrailingZeros(p[2])]]
    ELSE [error |-> "DataError"]

(* The value the Integer column category_id takes from the submitted       *)
(* string. *)
ToInteger(s) ==
    IF IsDigits(s) THEN [error |-> "", value |-> ToInt(s)]
    ELSE [error |-> "DataError"]

-----------------------------------------------------------------------------
(* Credential verifier (flask_bcrypt). *)
generate_password_hash(password) == [alg |-> "bcrypt", of |-> password]

check_password_hash(pw_hash, password) ==
    pw_hash = generate_password_hash(password)

-----------------------------------------------------------------------------
(* Responses.  flash is the list of messages the request flashed. *)
NoFlash == <<>>
Flash(message, category) == <<[message |-> message, category |-> category]>>

url_for(endpoint) ==
    CASE endpoint = "home" -> "/"
      [] endpoint = "login" -> "/login"
      [] endpoint = "register" -> "/register"
      [] endpoint = "dashboard" -> "/dashboard"
      [] endpoint = "categories" -> "/categories"

redirect(location, flash) ==
    [status |-> 302, location |-> location, template |-> "", flash |-> flash,
     categories |-> <<>>, transactions |-> <<>>, exc |-> ""]

render_template(template, flash, cats, txs) ==
    [status |-> 200, location |-> "", template |-> template, flash |-> flash,
     categories |-> cats, transactions |-> txs, exc |-> ""]

(* An exception that leaves the handler: Flask answers 500 and the        *)
(* request's database session is discarded, so nothing is written.        *)
UnhandledException(exc) ==
    [status |-> 500, location |-> "", template |-> "", flash |-> NoFlash,
     categories |-> <<>>, transactions |-> <<>>, exc |-> exc]

-----------------------------------------------------------------------------
(* Session / identity manager (Flask-Login). *)

(* load_user: the user the session cookie names, 0 (anonymous) when the   *)
(* cookie is absent or names no row of the user table.                    *)
load_user(user_id) ==
    IF \E i \in 1..Len(users) : users[i].id = user_id THEN user_id ELSE 0

current_user(c) == IF session[c] = 0 THEN 0 ELSE load_user(session[c])

is_authenticated(c) == current_user(c) # 0

(* Mutant: the decorator is missing and the route body always runs. *)
login_required_Missing(c) == TRUE

(* @login_required: whether the route body runs. *)
login_required(c) == is_authenticated(c)

(* What @login_required answers to an anonymous request. *)
Unauthorized ==
    redirect(url_for("login"),
             Flash("Please log in to access this page.", "info"))

-----------------------------------------------------------------------------
(* Persistence schema: the constraints the store checks at commit. *)

(* Mutant: email is not declared unique. *)
UserIntegrityError_UsernameOnly(row) ==
    \E i \in 1..Len(users) : users[i].username = row.username

(* User.username and User.email are unique. *)
UserIntegrityError(row) ==
    \E i \in 1..Len(users) :
        users[i].username = row.username \/ users[i].email = row.email

(* Transaction.amount is a Float and category_id an Integer that is a     *)
(* foreign key to category.id.  The error the commit of a row with the    *)
(* submitted amount and category_id raises, "" when it succeeds.          *)
TransactionCommitError(amount, category_id) ==
    IF ToFloat(amount).error # "" THEN ToFloat(amount).error
    ELSE IF ToInteger(category_id).error # "" THEN ToInteger(category_id).error
    ELSE IF ~\E i \in 1..Len(categories) :
                categories[i].id = ToInteger(category_id).value
    THEN "IntegrityError"
    ELSE ""

-----------------------------------------------------------------------------
Init ==
    /\ users = <<>>
    /\ categories = <<>>
    /\ transactions = <<>>
    /\ session = [c \in Clients |-> 0]
    /\ resp = render_template("index.html", NoFlash, <<>>, <<>>)
    /\ workers = [w \in Workers |-> [pc |-> "idle"]]

(* GET / *)
home(c) ==
    /\ resp' = IF is_authenticated(c)
               THEN redirect(url_for("dashboard"), NoFlash)
               ELSE render_template("index.html", NoFlash, <<>>, <<>>)
    /\ UNCHANGED <<users, categories, transactions, session, workers>>

(* GET /register *)
RegisterGet(c) ==
    /\ resp' = render_template("register.html", NoFlash, <<>>, <<>>)
    /\ UNCHANGED <<users, categories, transactions, session, workers>>

(* POST /register.  Row ids are handed out in insertion order; rows are   *)
(* never deleted.  created_at is not modelled.                            *)
RegisterPost(c, username, email, password) ==
    LET hashed_password == generate_password_hash(password)
        new_user == [id |-> Len(users) + 1, username |-> username,
                     email |-> email, password_hash |-> hashed_password]
    IN  /\ UserIntegrityError(new_user) \/ Len(users) < MaxUsers
        /\ IF UserIntegrityError(new_user)
           THEN /\ users' = users
                /\ resp' = redirect(url_for("register"),
                       Flash("Error creating account: IntegrityError. Please try again.",
                             "danger"))
           ELSE /\ users' = Append(users, new_user)
                /\ resp' = redirect(url_for("home"),
                       Flash("Account created successfully! You can now log in.",
                             "success"))
        /\ UNCHANGED <<categories, transactions, session, workers>>

(* GET /login *)
LoginGet(c) ==
    /\ resp' = IF is_authenticated(c)
               THEN redirect(url_for("home"), NoFlash)
               ELSE render_template("login.html", NoFlash, <<>>, <<>>)
    /\ UNCHANGED <<users, categories, transactions, session, workers>>

(* User.query.filter_by(username=username).first(): the row's index, 0    *)
(* when there is none.                                                    *)
UserByUsername(username) ==
    IF \E i \in 1..Len(users) : users[i].username = username
    THEN CHOOSE i \in 1..Len(users) : users[i].username = username
    ELSE 0

(* Mutant: an unknown username gets a message of its own. *)
LoginFailure_NamesCause(user) ==
    render_template("login.html",
        Flash(IF user = 0 THEN "No account with that username."
              ELSE "Login unsuccessful. Please check username and password.",
              "danger"),
        <<>>, <<>>)

(* The response of a failed login; user is the index looked up. *)
LoginFailure(user) ==
    render_template("login.html",
        Flash("Login unsuccessful. Please check username and password.", "danger"),
        <<>>, <<>>)

(* POST /login *)
LoginPost(c, username, password) ==
    LET user == UserByUsername(username) IN
    /\ IF is_authenticated(c)
       THEN /\ resp' = redirect(url_for("home"), NoFlash)
            /\ session' = session
       ELSE IF user # 0 /\ check_password_hash(users[user].password_hash, password)
       THEN /\ session' = [session EXCEPT ![c] = users[user].id]
            /\ resp' = redirect(url_for("home"), Flash("Login successful!", "success"))
       ELSE /\ session' = session
            /\ resp' = LoginFailure(user)
    /\ UNCHANGED <<users, categories, transactions, workers>>

(* GET /logout *)
logout(c) ==
    /\ session' = [session EXCEPT ![c] = 0]
    /\ resp' = redirect(url_for("home"), Flash("You have been logged out.", "info"))
    /\ UNCHANGED <<users, categories, transactions, workers>>

-----------------------------------------------------------------------------
(* Mutant: the query has no filter_by(user_id=...). *)
user_categories_Unfiltered(uid) == categories

(* Category.query.filter_by(user_id=current_user.id).all() *)
user_categories(uid) ==
    SelectSeq(categories, LAMBDA r : r.user_id = uid)

(* Transaction.query.filter_by(user_id=current_user.id) *)
TransactionsOf(uid) ==
    SelectSeq(transactions, LAMBDA r : r.user_id = uid)

(* Mutant: the query orders by date ascending. *)
OrderByDateDesc_Ascending(list) ==
    \A i, j \in 1..Len(list) :
        i < j => DateKey(list[i].transaction_date) <= DateKey(list[j].transaction_date)

(* .order_by(Transaction.transaction_date.desc()): whether list is in     *)
(* the order asked for.                                                   *)
OrderByDateDesc(list) ==
    \A i, j \in 1..Len(list) :
        i < j => DateKey(list[i].transaction_date) >= DateKey(list[j].transaction_date)

(* The lists the query may return: every arrangement of the user's rows   *)
(* in the order asked for (the store picks the order of equal dates).     *)
user_transactions(uid) ==
    LET rows == TransactionsOf(uid)
        n == Len(rows)
        perms == {p \in [1..n -> 1..n] : \A i, j \in 1..n : i # j => p[i] # p[j]}
    IN  {l \in {[i \in 1..n |-> rows[p[i]]] : p \in perms} : OrderByDateDesc(l)}

(* GET /dashboard *)
DashboardGet(c) ==
    /\ IF ~login_required(c)
       THEN resp' = Unauthorized
       ELSE \E listing \in user_transactions(current_user(c)) :
                resp' = render_template("dashboard.html", NoFlash,
                            user_categories(current_user(c)), listing)
    /\ UNCHANGED <<users, categories, transactions, session, workers>>

(* POST /dashboard *)
DashboardPost(c, amount, description, category_id, date_string) ==
    LET parsed == Strptime(date_string)
        err == TransactionCommitError(amount, category_id)
    IN  /\ ~login_required(c) \/ parsed.error # "" \/ err # ""
              \/ Len(transactions) < MaxTransactions
        /\ IF ~login_required(c)
           THEN /\ resp' = Unauthorized
                /\ transactions' = transactions
           ELSE IF parsed.error # ""
           THEN /\ resp' = UnhandledException(parsed.error)
                /\ transactions' = transactions
           ELSE IF err # ""
           THEN /\ resp' = UnhandledException(err)
                /\ transactions' = transactions
           ELSE /\ transactions' = Append(transactions,
                      [id |-> Len(transactions) + 1,
                       amount |-> ToFloat(amount).value,
                       description |-> description,
                       transaction_date |-> ToDateTime(parsed.value),
                       user_id |-> current_user(c),
                       category_id |-> ToInteger(category_id).value])
                /\ resp' = redirect(url_for("dashboard"),
                               Flash("Transaction added successfully!", "success"))
        /\ UNCHANGED <<users, categories, session, workers>>

(* Mutant: the existence check filters by name alone. *)
existing_category_AnyUser(uid, name) ==
    \E i \in 1..Len(categories) : categories[i].name = name

(* Category.query.filter_by(user_id=current_user.id, name=name).first()   *)
(* is not None.                                                           *)
existing_category(uid, name) ==
    \E i \in 1..Len(categories) :
        categories[i].user_id = uid /\ categories[i].name = name

new_category(uid, name, type) ==
    [id |-> Len(categories) + 1, name |-> name, type |-> type, user_id |-> uid]

(* GET /categories *)
CategoriesGet(c) ==
    /\ resp' = IF ~login_required(c)
               THEN Unauthorized
               ELSE render_template("categories.html", NoFlash,
                        user_categories(current_user(c)), <<>>)
    /\ UNCHANGED <<users, categories, transactions, session, workers>>

(* POST /categories, handled without another request in between. *)
CategoriesPost(c, name, type) ==
    /\ ~login_required(c) \/ existing_category(current_user(c), name)
          \/ Len(categories) < MaxCategories
    /\ IF ~login_required(c)
       THEN /\ resp' = Unauthorized
            /\ categories' = categories
       ELSE IF existing_category(current_user(c), name)
       THEN /\ categories' = categories
            /\ resp' = redirect(url_for("categories"),
                           Flash("This category name already exists.", "danger"))
       ELSE /\ categories' = Append(categories,
                                    new_category(current_user(c), name, type))
            /\ resp' = redirect(url_for("categories"),
                           Flash("Category added successfully!", "success"))
    /\ UNCHANGED <<users, transactions, session, workers>>

-----------------------------------------------------------------------------
(* One request at a time (the reference deployment), every route. *)
Next ==
    \E c \in Clients :
        \/ home(c)
        \/ RegisterGet(c)
        \/ \E u \in Usernames, e \in Emails, p \in RegisterPasswords :
               RegisterPost(c, u, e, p)
        \/ LoginGet(c)
        \/ \E u \in Usernames, p \in Passwords : LoginPost(c, u, p)
        \/ logout(c)
        \/ DashboardGet(c)
        \/ \E f \in DashboardForms :
               DashboardPost(c, f.amount, f.description, f.category_id,
                             f.transaction_date)
        \/ CategoriesGet(c)
        \/ CategoriesPost(c, "Salary", "Income")

Spec == Init /\ [][Next]_vars

(* One request at a time, the routes that read or write categories, with  *)
(* every category name and type.                                          *)
NextCategories ==
    \E c \in Clients :
        \/ \E u \in Usernames, e \in Emails, p \in RegisterPasswords :
               RegisterPost(c, u, e, p)
        \/ \E u \in Usernames, p \in Passwords : LoginPost(c, u, p)
        \/ logout(c)
        \/ DashboardGet(c)
        \/ CategoriesGet(c)
        \/ \E n \in CategoryNames, t \in CategoryTypes : CategoriesPost(c, n, t)

SpecCategories == Init /\ [][NextCategories]_vars

-----------------------------------------------------------------------------
(* Several workers, each handling one POST /categories to completion: the *)
(* existence check and the insert + commit are separate steps of the      *)
(* store, and other workers' steps may fall between them.                 *)
Inserting == {w \in Workers : workers[w].pc = "insert"}

(* Lines 213-223: the gate, the form and the existence check. *)
CategoriesCheck(w, c, name, type) ==
    /\ workers[w].pc = "idle"
    /\ Len(categories) + Cardinality(Inserting) < MaxCategories
    /\ IF ~login_required(c)
       THEN /\ resp' = Unauthorized
            /\ workers' = workers
       ELSE IF existing_category(current_user(c), name)
       THEN /\ resp' = redirect(url_for("categories"),
                           Flash("This category name already exists.", "danger"))
            /\ workers' = workers
       ELSE /\ workers' = [workers EXCEPT ![w] =
                   [pc |-> "insert", user_id |-> current_user(c),
                    name |-> name, type |-> type]]
            /\ resp' = resp
    /\ UNCHANGED <<users, categories, transactions, session>>

(* Lines 226-239: the insert, the commit and the redirect. *)
CategoriesCommit(w) ==
    /\ workers[w].pc = "insert"
    /\ categories' = Append(categories,
           new_category(workers[w].user_id, workers[w].name, workers[w].type))
    /\ resp' = redirect(url_for("categories"),
                   Flash("Category added successfully!", "success"))
    /\ workers' = [workers EXCEPT ![w] = [pc |-> "idle"]]
    /\ UNCHANGED <<users, transactions, session>>

NextConcurrent ==
    \/ \E c \in Clients :
        \/ \E u \in Usernames, e \in Emails, p \in RegisterPasswords :
               RegisterPost(c, u, e, p)
        \/ \E u \in Usernames, p \in Passwords : LoginPost(c, u, p)
        \/ logout(c)
        \/ CategoriesGet(c)
        \/ \E w \in Workers, n \in CategoryNames, t \in CategoryTypes :
               CategoriesCheck(w, c, n, t)
    \/ \E w \in Workers : CategoriesCommit(w)

SpecConcurrent == Init /\ [][NextConcurrent]_vars

-----------------------------------------------------------------------------
(* Properties. *)

Authenticated(c) ==
    session[c] # 0 /\ \E i \in 1..Len(users) : users[i].id = session[c]

LoginEntry == "/login"

(* C1: a request to /dashboard or /categories (GET or POST) reaches the   *)
(* route body exactly when the session is authenticated, a GET then       *)
(* answering 200 with the page; an anonymous request is answered 302 to   *)
(* the login path and leaves the three tables as they were.  The session  *)
(* becomes authenticated only by a successful login and anonymous only by *)
(* a logout.                                                              *)
ProtectedRequest(c) ==
    \/ DashboardGet(c)
    \/ CategoriesGet(c)
    \/ \E f \in DashboardForms :
               DashboardPost(c, f.amount, f.description, f.category_id,
                             f.transaction_date)
    \/ \E n \in CategoryNames, t \in CategoryTypes : CategoriesPost(c, n, t)

C1_AccessGate ==
    [][\A c \in Clients :
        /\ IF Authenticated(c)
           THEN ~(resp'.status = 302 /\ resp'.location = LoginEntry)
                   \/ ~ProtectedRequest(c)
           ELSE ProtectedRequest(c)
                   => /\ resp'.status = 302
                      /\ resp'.location = LoginEntry
                      /\ store' = store
        /\ (Authenticated(c) /\ DashboardGet(c))
           => resp'.status = 200 /\ resp'.template = "dashboard.html"
        /\ (Authenticated(c) /\ CategoriesGet(c))
           => resp'.status = 200 /\ resp'.template = "categories.html"
        /\ (session[c] = 0 /\ session'[c] # 0)
           => (\E u \in Usernames, p \in Passwords :
                  /\ LoginPost(c, u, p)
                  /\ \E i \in 1..Len(users) :
                        /\ users[i].username = u
                        /\ users[i].id = session'[c]
                        /\ users[i].password_hash.of = p)
        /\ (session[c] # 0 /\ session'[c] # session[c])
           => logout(c) /\ session'[c] = 0
      ]_vars

(* An authenticated GET /dashboard answered with the page, after a        *)
(* logout and a second login of the same browser.                         *)
C1_Witness ==
    /\ session["c1"] = 2
    /\ resp.status = 200
    /\ resp.template = "dashboard.html"

UniqueUsers ==
    \A i, j \in 1..Len(users) :
        i # j => users[i].username # users[j].username
                 /\ users[i].email # users[j].email

(* C2: POST /register with a username and an email that no User has adds  *)
(* exactly one User and redirects to home with a success message; with a  *)
(* username or an email that some User has it leaves the User table       *)
(* unchanged, raises nothing and returns to the registration form with an *)
(* error message.  No two Users ever share a username or an email.        *)
C2_Register ==
    /\ UniqueUsers
    /\ [][/\ UniqueUsers'
          /\ \A c \in Clients, u \in Usernames, e \in Emails,
                p \in RegisterPasswords :
               RegisterPost(c, u, e, p) =>
                 IF \A i \in 1..Len(users) :
                        users[i].username # u /\ users[i].email # e
                 THEN /\ Len(users') = Len(users) + 1
                      /\ SubSeq(users', 1, Len(users)) = users
                      /\ users'[Len(users')].username = u
                      /\ users'[Len(users')].email = e
                      /\ resp'.status = 302
                      /\ resp'.location = "/"
                      /\ Len(resp'.flash) = 1
                      /\ resp'.flash[1].category = "success"
                 ELSE /\ users' = users
                      /\ resp'.status = 302
                      /\ resp'.location = "/register"
                      /\ Len(resp'.flash) = 1
                      /\ resp'.flash[1].category = "danger"
         ]_vars

(* A registration refused because the table's only User already holds    *)
(* the submitted username or email.                                       *)
C2_Witness ==
    /\ Len(users) = 1
    /\ resp.status = 302
    /\ resp.location = "/register"

(* C3: the category list of GET /categories and the category and          *)
(* transaction lists of GET /dashboard hold only rows whose user_id is    *)
(* the id of the authenticated user they are returned to.                 *)
C3_ReadIsolation ==
    [][\A c \in Clients :
        (Authenticated(c) /\ (DashboardGet(c) \/ CategoriesGet(c)))
        => /\ \A i \in 1..Len(resp'.categories) :
                 resp'.categories[i].user_id = session[c]
           /\ \A i \in 1..Len(resp'.transactions) :
                 resp'.transactions[i].user_id = session[c]
      ]_vars

(* A category page listing the reader's own category while another user   *)
(* owns a category and a transaction.                                     *)
C3_Witness ==
    /\ resp.template = "categories.html"
    /\ Len(resp.categories) = 1
    /\ \E i \in 1..Len(categories) : categories[i].user_id # session["c1"]
    /\ \E i \in 1..Len(transactions) : transactions[i].user_id # session["c1"]

(* C4: POST /categories by authenticated user u with name n adds exactly  *)
(* one Category (n, type, u) when u has no category named n, whatever     *)
(* other users have, and otherwise writes nothing and flashes the         *)
(* 'already exists' message; either way it redirects to /categories.      *)
C4_CategoryCreate ==
    [][\A c \in Clients, n \in CategoryNames, t \in CategoryTypes :
        (Authenticated(c) /\ CategoriesPost(c, n, t))
        => /\ resp'.status = 302
           /\ resp'.location = "/categories"
           /\ Len(resp'.flash) = 1
           /\ UNCHANGED <<users, transactions>>
           /\ IF \E i \in 1..Len(categories) :
                    categories[i].user_id = session[c] /\ categories[i].name = n
              THEN /\ categories' = categories
                   /\ resp'.flash[1].message = "This category name already exists."
              ELSE /\ Len(categories') = Len(categories) + 1
                   /\ SubSeq(categories', 1, Len(categories)) = categories
                   /\ categories'[Len(categories')].user_id = session[c]
                   /\ categories'[Len(categories')].name = n
                   /\ categories'[Len(categories')].type = t
                   /\ resp'.flash[1].category = "success"
      ]_vars

(* A category created under a name that another user's category already  *)
(* carries.                                                               *)
C4_Witness ==
    /\ Len(categories) = 2
    /\ categories[1].name = categories[2].name
    /\ categories[1].user_id # categories[2].user_id
    /\ resp.location = "/categories"
    /\ Len(resp.flash) = 1
    /\ resp.flash[1].category = "success"

(* C5: every Transaction's category is a Category of the Transaction's    *)
(* own user.                                                              *)
C5_CategoryOwnership ==
    \A i \in 1..Len(transactions) :
        \E j \in 1..Len(categories) :
            /\ categories[j].id = transactions[i].category_id
            /\ categories[j].user_id = transactions[i].user_id

(* C6: for an anonymous session, POST /login with a username no User has  *)
(* and POST /login with a User's username and another password get the    *)
(* same response, the login form with the one generic message, and leave  *)
(* the session anonymous and the tables unchanged.                        *)
GenericLoginFailure ==
    [status |-> 200, location |-> "", template |-> "login.html",
     flash |-> <<[message |-> "Login unsuccessful. Please check username and password.",
                  category |-> "danger"]>>,
     categories |-> <<>>, transactions |-> <<>>, exc |-> ""]

C6_LoginFailure ==
    [][\A c \in Clients, u \in Usernames, p \in Passwords :
        (/\ ~Authenticated(c)
         /\ LoginPost(c, u, p)
         /\ \/ \A i \in 1..Len(users) : users[i].username # u
            \/ \E i \in 1..Len(users) :
                  users[i].username = u /\ users[i].password_hash.of # p)
        => /\ resp' = GenericLoginFailure
           /\ session' = session
           /\ store' = store
      ]_vars

(* A failed login while every username of the form is registered: the     *)
(* password was wrong.                                                    *)
C6_Witness ==
    /\ Len(users) = 2
    /\ resp = GenericLoginFailure

(* C7: a successful POST /dashboard by user u with amount a, description  *)
(* d, category id k and date t adds one Transaction of u that carries the *)
(* number a, d, the number k and the calendar date t; GET /dashboard by u *)
(* lists exactly u's Transactions, each once, dates descending, so a row   *)
(* stands before every row of an older date.                              *)
C7_DashboardRoundTrip ==
    [][\A c \in Clients :
        /\ \A a \in Amounts, d \in Descriptions, k \in CategoryIdStrings,
              t \in DateStrings :
             (/\ Authenticated(c)
              /\ Len(transactions') # Len(transactions)
              /\ DashboardPost(c, a, d, k, t))
             => /\ resp'.status = 302
                /\ resp'.location = "/dashboard"
                /\ Len(transactions') = Len(transactions) + 1
                /\ SubSeq(transactions', 1, Len(transactions)) = transactions
                /\ LET row == transactions'[Len(transactions')] IN
                     /\ row.user_id = session[c]
                     /\ row.description = d
                     /\ row.amount = ToFloat(a).value
                     /\ row.category_id = ToInteger(k).value
                     /\ row.transaction_date.year = Strptime(t).value.year
                     /\ row.transaction_date.month = Strptime(t).value.month
                     /\ row.transaction_date.day = Strptime(t).value.day
        /\ (Authenticated(c) /\ DashboardGet(c))
           => LET list == resp'.transactions IN
                /\ \A i \in 1..Len(transactions) :
                      transactions[i].user_id = session[c]
                      => \E j \in 1..Len(list) : list[j] = transactions[i]
                /\ \A j \in 1..Len(list) :
                      \E i \in 1..Len(transactions) :
                         list[j] = transactions[i] /\ list[j].user_id = session[c]
                /\ \A i, j \in 1..Len(list) : i # j => list[i].id # list[j].id
                /\ \A i, j \in 1..Len(list) :
                      DateKey(list[i].transaction_date) > DateKey(list[j].transaction_date)
                      => i < j
      ]_vars

(* A dashboard whose list puts the row added second, of the newer date,   *)
(* before the row added first.                                            *)
C7_Witness ==
    /\ resp.template = "dashboard.html"
    /\ Len(resp.transactions) = 2
    /\ resp.transactions[1].id > resp.transactions[2].id
    /\ DateKey(resp.transactions[1].transaction_date)
          > DateKey(resp.transactions[2].transaction_date)
    /\ resp.transactions[1].amount = [whole |-> 42, frac |-> <<"5">>]

(* C8: POST /dashboard by an authenticated user with a transaction_date   *)
(* that is no valid YYYY-MM-DD date is answered with a user-visible       *)
(* error, not an unhandled exception, and creates no Transaction.         *)
C8_MalformedDate ==
    [][\A c \in Clients, a \in Amounts, d \in Descriptions,
          k \in CategoryIdStrings, t \in DateStrings :
        (/\ Authenticated(c)
         /\ Strptime(t).error # ""
         /\ DashboardPost(c, a, d, k, t))
        => /\ resp'.status # 500
           /\ resp'.exc = ""
           /\ Len(resp'.flash) > 0
           /\ store' = store
      ]_vars

(* C9: at most one Category per (user id, name). *)
C9_UniqueCategoryNames ==
    \A i, j \in 1..Len(categories) :
        (categories[i].user_id = categories[j].user_id
           /\ categories[i].name = categories[j].name)
        => i = j

(* C10: when the commit of the new row fails in POST /register or POST    *)
(* /dashboard, the handler answers with an error message, not an          *)
(* unhandled exception, and the tables are as before the request.  (POST  *)
(* /categories commits a row no constraint of the schema refuses.)        *)
C10_PersistenceErrorContained ==
    [][\A c \in Clients :
        /\ \A u \in Usernames, e \in Emails, p \in RegisterPasswords :
             (/\ \E i \in 1..Len(users) :
                    users[i].username = u \/ users[i].email = e
              /\ RegisterPost(c, u, e, p))
             => /\ resp'.status # 500
                /\ Len(resp'.flash) > 0
                /\ store' = store
        /\ \A a \in Amounts, d \in Descriptions, k \in CategoryIdStrings,
              t \in DateStrings :
             (/\ Authenticated(c)
              /\ Strptime(t).error = ""
              /\ TransactionCommitError(a, k) # ""
              /\ DashboardPost(c, a, d, k, t))
             => /\ resp'.status # 500
                /\ Len(resp'.flash) > 0
                /\ store' = store
      ]_vars

====
